---- MODULE Spec2Model ----
(***************************************************************************)
(* Request handling and input validation of the school-community web       *)
(* application (app/routes.py, app/models.py): register, login, logout,    *)
(* profile and feedback over the Student / Tutor / Idea tables.            *)
(*                                                                         *)
(* Text is a sequence of symbols.  A symbol is one character, except for   *)
(* two run symbols that stand for a long stretch of ordinary characters    *)
(* (LongWord, WordRun) so that the 150-word and 1000-character limits of   *)
(* the code can be crossed by short sequences.                             *)
(***************************************************************************)
EXTENDS Integers, Sequences, FiniteSets, TLC

VARIABLES students, tutors, ideas, session, request, response, inflight,
          san_in, san_lim, san_out, san_again, san_pass

vars == <<students, tutors, ideas, session, request, response, inflight,
          san_in, san_lim, san_out, san_again, san_pass>>

(***************************************************************************)
(* Text                                                                    *)
(***************************************************************************)

\* Python's None (a missing form field, a rejected sanitize()).
None == <<"None">>

\* 498 ordinary non-space characters in a row.
LongWord == "x{498}"

\* 75 one-letter words separated by single spaces: "x x x ... x".
WordRun == "x( x){74}"

\* The number of characters a symbol stands for.
Width(c) ==
    IF c = LongWord THEN 498 ELSE IF c = WordRun THEN 149 ELSE 1

RECURSIVE CharLen(_)
\* len(text)
CharLen(t) ==
    IF t = <<>> THEN 0 ELSE Width(Head(t)) + CharLen(Tail(t))

RECURSIVE WordsFrom(_, _)
\* The words of t that start in t, given whether a word is already open.
WordsFrom(t, inword) ==
    IF t = <<>> THEN 0
    ELSE IF Head(t) = " " THEN WordsFrom(Tail(t), FALSE)
    ELSE IF Head(t) = WordRun
         THEN (IF inword THEN 74 ELSE 75) + WordsFrom(Tail(t), TRUE)
    ELSE (IF inword THEN 0 ELSE 1) + WordsFrom(Tail(t), TRUE)

\* len(text.split())
WordCount(t) == WordsFrom(t, FALSE)

RECURSIVE LStrip(_)
LStrip(t) ==
    IF t # <<>> /\ Head(t) = " " THEN LStrip(Tail(t)) ELSE t

RECURSIVE RStrip(_)
RStrip(t) ==
    IF t # <<>> /\ t[Len(t)] = " " THEN RStrip(SubSeq(t, 1, Len(t) - 1)) ELSE t

\* str.strip()
Strip(t) == RStrip(LStrip(t))

\* Python truthiness of an optional string: None and "" are false.
Truthy(t) == t # None /\ t # <<>>

RECURSIVE StripTags(_)
\* re.sub(r"<[^>]*>", "", text): from each "<" that has a ">" after it, the
\* text up to and including the first such ">" is removed; a "<" with no
\* ">" after it stays.
StripTags(t) ==
    IF t = <<>> THEN <<>>
    ELSE IF Head(t) = "<" /\ (\E i \in 2..Len(t) : t[i] = ">")
         THEN LET j == CHOOSE i \in 2..Len(t) :
                          t[i] = ">" /\ \A k \in 2..(i - 1) : t[k] # ">"
              IN  StripTags(SubSeq(t, j + 1, Len(t)))
    ELSE <<Head(t)>> \o StripTags(Tail(t))

\* markupsafe.escape of one character of a plain str.
EscapeChar(c) ==
    CASE c = "&"  -> <<"&", "a", "m", "p", ";">>
      [] c = "<"  -> <<"&", "l", "t", ";">>
      [] c = ">"  -> <<"&", "g", "t", ";">>
      [] c = "'"  -> <<"&", "#", "3", "9", ";">>
      [] c = "\"" -> <<"&", "#", "3", "4", ";">>
      [] OTHER    -> <<c>>

RECURSIVE EscapeKeepsAmpersand(_)
\* Fault injection: the ampersand is left out of the escape table.
EscapeKeepsAmpersand(t) ==
    IF t = <<>> THEN <<>>
    ELSE (IF Head(t) = "&" THEN <<"&">> ELSE EscapeChar(Head(t)))
             \o EscapeKeepsAmpersand(Tail(t))

RECURSIVE Escape(_)
\* markupsafe.escape(text).  Its argument is always the plain str that
\* re.sub returns (re.sub never returns a Markup), so every special
\* character is escaped, those of an earlier escape included.
Escape(t) ==
    IF t = <<>> THEN <<>> ELSE EscapeChar(Head(t)) \o Escape(Tail(t))

\* register.sanitize(text, max_words, max_chars)
sanitize(text, max_words, max_chars) ==
    LET clean == Escape(StripTags(text))
    IN  IF WordCount(clean) > max_words THEN None
        ELSE IF CharLen(clean) > max_chars THEN None
        ELSE clean

(***************************************************************************)
(* Persistence store (app/models.py)                                       *)
(***************************************************************************)

\* A Student row; hobbies and destination are never written by a handler.
Student(id, student_number, password, name, email) ==
    [id |-> id, student_number |-> student_number, password |-> password,
     name |-> name, email |-> email]

\* A Tutor row.
Tutor(id, student_id, subjects, year) ==
    [id |-> id, student_id |-> student_id, subjects |-> subjects, year |-> year]

\* An Idea row.
Idea(id, content, timestamp, student_id) ==
    [id |-> id, content |-> content, timestamp |-> timestamp,
     student_id |-> student_id]

\* The rows of a table, the table being the sequence of its rows by id.
Rows(table) == {table[i] : i \in 1..Len(table)}

\* The next autoincrement primary key of a table (no row is ever deleted).
NextId(table) == Len(table) + 1

\* Fault injection: the lookup ignores the student number.
ByNumberAny(number) == Rows(students)

\* Student.query.filter_by(student_number=number)
ByNumber(number) == {s \in Rows(students) : s.student_number = number}

\* Fault injection: the password is not compared.
ByCredentialsNumberOnly(number, password) == ByNumber(number)

\* Student.query.filter_by(student_number=number, password=password)
ByCredentials(number, password) ==
    {s \in ByNumber(number) : s.password = password}

\* query.first(): the one row, student_number being unique.
First(rows) == CHOOSE s \in rows : TRUE

(***************************************************************************)
(* Sessions, requests and responses                                        *)
(***************************************************************************)

\* The browsers (one cookie-backed session each).
Clients == {"c1", "c2"}

\* The browser whose requests are handled one at a time.
Browser == "c1"

\* A session: the two keys the handlers set; None is "key absent".
Session(student_number, name) ==
    [student_number |-> student_number, name |-> name]

\* session.clear()
NoSession == Session(None, None)

\* What a handler returns: the HTTP status, the template rendered (or the
\* redirect target, or the unhandled exception), the template's flags, the
\* category-less flash message, and the feedback list handed to ideas.html.
Resp(status, page, error, alreadyexist, flashed, feedbacks) ==
    [status |-> status, page |-> page, error |-> error,
     alreadyexist |-> alreadyexist, flashed |-> flashed, feedbacks |-> feedbacks]

Render(page) == Resp(200, page, FALSE, FALSE, "", <<>>)

Redirect(target) == Resp(302, target, FALSE, FALSE, "", <<>>)

\* An exception no handler catches: Flask answers 500.
Unhandled(exception) == Resp(500, exception, FALSE, FALSE, "", <<>>)

Flash(page, message) == Resp(200, page, FALSE, FALSE, message, <<>>)

Req(route, method, client, form) ==
    [route |-> route, method |-> method, client |-> client, form |-> form]

NoRequest == Req("", "", "", <<>>)

NoResponse == Resp(0, "", FALSE, FALSE, "", <<>>)

\* The flashed messages of the handlers.
MsgInvalidInput == "Invalid input: please check your details."
MsgTutorFields == "Please provide subjects and year for tutor registration."
MsgProvideBoth == "Please provide both student number and feedback."
MsgTooManyWords == "Feedback too long. Please limit to 150 words."
MsgTooManyChars == "Feedback too long. Please limit to 1000 characters."
MsgInvalidStudent == "Invalid student number. Please try again."
MsgSubmitted == "Feedback submitted successfully!"
MsgStoreError == "An error occurred while submitting feedback. Please try again."

(***************************************************************************)
(* /register                                                               *)
(***************************************************************************)

\* request.form of a registration POST.  subjects and year are None when
\* the field is not in the form.
RegisterForm(number, password, first, last, email, is_tutor, subjects, year) ==
    [student_number |-> number, password |-> password,
     student_name |-> first, student_lastname |-> last,
     email |-> email, is_tutor |-> is_tutor, subjects |-> subjects, year |-> year]

\* request.form.get("subjects").strip() and the same for year raise
\* AttributeError on a tutor form without the field.
RaisesAttributeError(form) ==
    form.is_tutor /\ (form.subjects = None \/ form.year = None)

\* sanitize(x, ...) if x else None
SanitizeOptional(text, max_words, max_chars) ==
    IF Truthy(text) THEN sanitize(text, max_words, max_chars) ELSE None

\* The fields of a form after strip() and sanitize().
RegisterFields(form) ==
    [student_number |-> sanitize(Strip(form.student_number), 1, 20),
     password |-> sanitize(Strip(form.password), 1, 50),
     name |-> sanitize(Strip(form.student_name) \o <<" ">>
                         \o Strip(form.student_lastname), 10, 100),
     email |-> sanitize(Strip(form.email), 1, 100),
     is_tutor |-> form.is_tutor,
     subjects |-> IF form.is_tutor
                  THEN SanitizeOptional(Strip(form.subjects), 20, 200)
                  ELSE None,
     year |-> IF form.is_tutor
              THEN SanitizeOptional(Strip(form.year), 1, 4)
              ELSE None]

\* not student_number or not password or not name or not email
MissingRequired(f) ==
    ~Truthy(f.student_number) \/ ~Truthy(f.password)
        \/ ~Truthy(f.name) \/ ~Truthy(f.email)

\* is_tutor and (not subjects or not year)
MissingTutorFields(f) ==
    f.is_tutor /\ (~Truthy(f.subjects) \/ ~Truthy(f.year))

\* Student(student_number=..., password=..., name=name.strip(), email=...)
NewStudent(f) ==
    Student(NextId(students), f.student_number, f.password, Strip(f.name), f.email)

\* Tutor(student_id=new_student.id, subjects=subjects, year=year).  SQLite
\* stores the year as given: an INTEGER column takes any text.
NewTutor(f, student_id) ==
    Tutor(NextId(tutors), student_id, f.subjects, f.year)

\* The session record of the auto-login after registration.
RegisteredSession(f) == Session(f.student_number, Strip(f.name))

RegisterPage(alreadyexist, flashed) ==
    Resp(200, "register.html", FALSE, alreadyexist, flashed, <<>>)

\* Fault injection: the lookup of the existing student is left out.
RegisterEarlyNoLookup(form) ==
    IF RaisesAttributeError(form) THEN Unhandled("AttributeError")
    ELSE LET f == RegisterFields(form)
         IN  IF MissingRequired(f) THEN RegisterPage(FALSE, MsgInvalidInput)
             ELSE IF MissingTutorFields(f) THEN RegisterPage(FALSE, MsgTutorFields)
             ELSE NoResponse

\* What register() answers before it touches the store, or NoResponse when
\* it goes on to insert: the lines up to the tutor check.
RegisterEarly(form) ==
    IF RaisesAttributeError(form) THEN Unhandled("AttributeError")
    ELSE LET f == RegisterFields(form)
         IN  IF MissingRequired(f) THEN RegisterPage(FALSE, MsgInvalidInput)
             ELSE IF ByNumber(f.student_number) # {} THEN RegisterPage(TRUE, "")
             ELSE IF MissingTutorFields(f) THEN RegisterPage(FALSE, MsgTutorFields)
             ELSE NoResponse

\* Where a commit of register() fails in storage: nowhere, at the commit of
\* the Student row, at the commit of the Tutor row.
RegisterFaults == {"none", "student", "tutor"}

\* student_number is UNIQUE: the commit of a second row with a stored number
\* raises IntegrityError.
UniqueViolation(f) == ByNumber(f.student_number) # {}

\* A registration POST handled from start to end with no other request in
\* between.  fault is where a commit fails in storage, if anywhere.
RegisterPostAs(c, form) ==
    LET early == RegisterEarly(form)
        f == RegisterFields(form)
        student == NewStudent(f)
    IN  /\ request' = Req("/register", "POST", c, form)
        /\ UNCHANGED <<ideas, inflight, san_in, san_lim, san_out, san_again, san_pass>>
        /\ IF early # NoResponse
           THEN /\ response' = early
                /\ UNCHANGED <<students, tutors, session>>
           ELSE IF UniqueViolation(f)
           THEN /\ response' = Unhandled("IntegrityError")
                /\ UNCHANGED <<students, tutors, session>>
           ELSE \E fault \in RegisterFaults :
                   IF fault = "student"
                   THEN /\ response' = Unhandled("OperationalError")
                        /\ UNCHANGED <<students, tutors, session>>
                   ELSE /\ students' = Append(students, student)
                        /\ IF f.is_tutor /\ fault = "tutor"
                           THEN /\ response' = Unhandled("OperationalError")
                                /\ UNCHANGED <<tutors, session>>
                           ELSE /\ tutors' = IF f.is_tutor
                                             THEN Append(tutors, NewTutor(f, student.id))
                                             ELSE tutors
                                /\ session' = [session EXCEPT
                                                 ![c] = RegisteredSession(f)]
                                /\ response' = Redirect("/")

\* The registration forms submitted.
RegisterNumbers == {<<"1">>, <<" ", "<", "b", ">", "2">>, <<>>}
RegisterPasswords == {<<"p">>, <<"a", "&">>, <<>>}
RegisterTutorFields ==
    {<<<<"M">>, <<"1">>>>, <<<<"M">>, <<"a">>>>, <<<<"<", "i", ">">>, <<"1">>>>,
     <<<<"M">>, None>>}
RegisterForms ==
    {RegisterForm(n, p, <<"J">>, <<>>, <<"e">>, FALSE, None, None) :
        n \in RegisterNumbers, p \in RegisterPasswords}
    \cup {RegisterForm(n, <<"p">>, <<"J">>, <<>>, <<"e">>, TRUE, t[1], t[2]) :
        n \in RegisterNumbers, t \in RegisterTutorFields}
    \cup {RegisterForm(<<"1">>, <<"p">>, <<LongWord>>, <<>>, <<"e">>, FALSE, None, None),
          RegisterForm(<<"1">>, <<"p">>, <<"J">>, <<"L">>, <<>>, FALSE, None, None)}

RegisterPost ==
    \E form \in RegisterForms : RegisterPostAs(Browser, form)

RegisterGet ==
    /\ request' = Req("/register", "GET", Browser, <<>>)
    /\ response' = RegisterPage(FALSE, "")
    /\ UNCHANGED <<students, tutors, ideas, session, inflight,
                   san_in, san_lim, san_out, san_again, san_pass>>

(***************************************************************************)
(* /login, /logout, /profile                                               *)
(***************************************************************************)

LoginForm(student_number, password) ==
    [student_number |-> student_number, password |-> password]

LoginPage(error) == Resp(200, "login.html", error, FALSE, "", <<>>)

\* A login POST: the form's values are compared as submitted.
LoginPostAs(c, form) ==
    LET found == ByCredentials(form.student_number, form.password)
    IN  /\ request' = Req("/login", "POST", c, form)
        /\ IF found # {}
           THEN /\ session' = [session EXCEPT
                                 ![c] = Session(First(found).student_number,
                                                First(found).name)]
                /\ response' = Redirect("/")
           ELSE /\ response' = LoginPage(TRUE)
                /\ UNCHANGED session
        /\ UNCHANGED <<students, tutors, ideas, inflight,
                       san_in, san_lim, san_out, san_again, san_pass>>

\* The login forms submitted: the values typed at registration, and the
\* values registration stored for them.
LoginNumbers == {<<"1">>, <<" ", "<", "b", ">", "2">>, <<"2">>}
LoginPasswords == {<<"p">>, <<"a", "&">>, <<"a", "&", "a", "m", "p", ";">>}

LoginPost ==
    \E n \in LoginNumbers, p \in LoginPasswords :
        LoginPostAs(Browser, LoginForm(n, p))

LoginGet ==
    /\ request' = Req("/login", "GET", Browser, <<>>)
    /\ response' = LoginPage(FALSE)
    /\ UNCHANGED <<students, tutors, ideas, session, inflight,
                   san_in, san_lim, san_out, san_again, san_pass>>

Logout ==
    /\ request' = Req("/logout", "GET", Browser, <<>>)
    /\ session' = [session EXCEPT ![Browser] = NoSession]
    /\ response' = Redirect("/")
    /\ UNCHANGED <<students, tutors, ideas, inflight,
                   san_in, san_lim, san_out, san_again, san_pass>>

Profile ==
    /\ request' = Req("/profile", "GET", Browser, <<>>)
    /\ response' = IF session[Browser].student_number = None
                   THEN Redirect("/login")
                   ELSE Render("profile.html")
    /\ UNCHANGED <<students, tutors, ideas, session, inflight,
                   san_in, san_lim, san_out, san_again, san_pass>>

(***************************************************************************)
(* /feedback                                                               *)
(***************************************************************************)

\* The limits of feedback().
word_limit == 150
char_limit == 1000

\* The most Idea rows and the latest clock reading the model explores.
MaxIdeas == 2
MaxTime == 1

FeedbackForm(student_number, feedback) ==
    [student_number |-> student_number, feedback |-> feedback]

\* not student_number or not feedback_content
MissingFeedbackField(form) ==
    ~Truthy(form.student_number) \/ ~Truthy(form.feedback)

\* escape(re.sub(r"<[^>]*>", "", feedback_content))
CleanFeedback(raw) == Escape(StripTags(raw))

\* len(feedback_content.split()) > word_limit, on the cleaned content
TooManyWords(clean) == WordCount(clean) > word_limit

\* Fault injection: the character limit is not enforced.
TooManyCharsOff(clean) == FALSE

\* len(feedback_content) > char_limit, on the cleaned content
TooManyChars(clean) == CharLen(clean) > char_limit

\* Fault injection: the order is ascending (oldest first).
OldestFirst(rows) ==
    {o \in [1..Len(rows) -> 1..Len(rows)] :
        /\ \A i, j \in 1..Len(rows) : i # j => o[i] # o[j]
        /\ \A i \in 1..(Len(rows) - 1) :
              rows[o[i]].timestamp <= rows[o[i + 1]].timestamp}

\* Idea.query.order_by(Idea.timestamp.desc()).all(): the ids of the rows in
\* an order of non-increasing timestamp.  SQL leaves the order of rows with
\* equal timestamps open, so every such order is a possible answer.
NewestFirst(rows) ==
    {o \in [1..Len(rows) -> 1..Len(rows)] :
        /\ \A i, j \in 1..Len(rows) : i # j => o[i] # o[j]
        /\ \A i \in 1..(Len(rows) - 1) :
              rows[o[i]].timestamp >= rows[o[i + 1]].timestamp}

FeedbackList(flashed, order) ==
    Resp(200, "ideas.html", FALSE, FALSE, flashed, order)

\* What feedback() answers to a POST it rejects, or NoResponse when it goes
\* on to save the Idea.
FeedbackEarly(form) ==
    IF MissingFeedbackField(form) THEN Flash("ideas.html", MsgProvideBoth)
    ELSE LET clean == CleanFeedback(form.feedback)
         IN  IF TooManyWords(clean) THEN Flash("ideas.html", MsgTooManyWords)
             ELSE IF TooManyChars(clean) THEN Flash("ideas.html", MsgTooManyChars)
             ELSE IF ByNumber(form.student_number) = {}
                  THEN Flash("ideas.html", MsgInvalidStudent)
             ELSE NoResponse

\* Idea(student_id=student.id, content=feedback_content, timestamp=utcnow())
NewIdea(form, now) ==
    Idea(NextId(ideas), CleanFeedback(form.feedback), now,
         First(ByNumber(form.student_number)).id)

\* The redirect that follows a saved Idea.
FeedbackSaved == Resp(302, "/feedback", FALSE, FALSE, MsgSubmitted, <<>>)

\* A feedback POST.  now is what datetime.utcnow() returns, the wall clock:
\* nothing keeps it ahead of the earlier readings.  failed is whether the
\* commit raises.
FeedbackPostAs(c, form) ==
    LET early == FeedbackEarly(form)
    IN  /\ request' = Req("/feedback", "POST", c, form)
        /\ UNCHANGED <<students, tutors, session, inflight,
                       san_in, san_lim, san_out, san_again, san_pass>>
        /\ IF early # NoResponse
           THEN /\ response' = early
                /\ UNCHANGED ideas
           ELSE \E now \in 0..MaxTime, failed \in BOOLEAN :
                   IF failed
                   THEN /\ \E order \in NewestFirst(ideas) :
                              response' = FeedbackList(MsgStoreError, order)
                        /\ UNCHANGED ideas
                   ELSE /\ Len(ideas) < MaxIdeas
                        /\ ideas' = Append(ideas, NewIdea(form, now))
                        /\ response' = FeedbackSaved

\* The feedback forms submitted.
FeedbackNumbers == {<<"2">>, <<"3">>, <<>>}
FeedbackContents ==
    {<<"<", "b", ">", "h", "&">>, <<>>,
     <<WordRun, " ", WordRun, " ", "h">>,
     <<WordRun, " ", WordRun, " ", "<", "h", ">">>,
     <<LongWord, LongWord, "<">>,
     <<LongWord, LongWord, "&">>}

FeedbackPost ==
    \E n \in FeedbackNumbers, text \in FeedbackContents :
        FeedbackPostAs(Browser, FeedbackForm(n, text))

FeedbackGet ==
    /\ request' = Req("/feedback", "GET", Browser, <<>>)
    /\ \E order \in NewestFirst(ideas) : response' = FeedbackList("", order)
    /\ UNCHANGED <<students, tutors, ideas, session, inflight,
                   san_in, san_lim, san_out, san_again, san_pass>>

(***************************************************************************)
(* /register, step by step: two requests in flight (the server is          *)
(* threaded), each between its own lookup and its own commits              *)
(***************************************************************************)

InFlight(pc, form, student_id, resp) ==
    [pc |-> pc, form |-> form, student_id |-> student_id, response |-> resp]

Idle == InFlight("idle", <<>>, 0, NoResponse)

\* The forms of the requests in flight.
RaceForms ==
    {RegisterForm(<<"1">>, <<"p">>, <<"J">>, <<>>, <<"e">>, FALSE, None, None),
     RegisterForm(<<"1">>, <<"a", "&">>, <<"K">>, <<>>, <<"e">>, TRUE, <<"M">>, <<"1">>),
     RegisterForm(<<"2">>, <<"p">>, <<"J">>, <<>>, <<"e">>, FALSE, None, None),
     RegisterForm(<<"2">>, <<>>, <<"J">>, <<>>, <<"e">>, FALSE, None, None)}

\* Lines 156-199: strip, sanitize, validate, look the number up.
RegisterBegin(c) ==
    \E form \in RaceForms :
        /\ inflight[c].pc = "idle"
        /\ inflight' = [inflight EXCEPT ![c] =
              IF RegisterEarly(form) # NoResponse
              THEN InFlight("done", form, 0, RegisterEarly(form))
              ELSE InFlight("student", form, 0, NoResponse)]
        /\ UNCHANGED <<students, tutors, ideas, session, request, response,
                       san_in, san_lim, san_out, san_again, san_pass>>

\* Lines 201-208 (and 219-222 for a non-tutor): add and commit the Student.
\* The UNIQUE constraint on student_number makes the commit raise
\* IntegrityError when a row with the number was committed since the lookup.
RegisterCommitStudent(c) ==
    \E failed \in BOOLEAN :
        LET f == RegisterFields(inflight[c].form)
            student == NewStudent(f)
            end(resp) == [inflight EXCEPT ![c].pc = "done", ![c].response = resp]
        IN  /\ inflight[c].pc = "student"
            /\ UNCHANGED <<tutors, ideas, request, response,
                           san_in, san_lim, san_out, san_again, san_pass>>
            /\ IF UniqueViolation(f)
               THEN /\ inflight' = end(Unhandled("IntegrityError"))
                    /\ UNCHANGED <<students, session>>
               ELSE IF failed
               THEN /\ inflight' = end(Unhandled("OperationalError"))
                    /\ UNCHANGED <<students, session>>
               ELSE /\ students' = Append(students, student)
                    /\ IF f.is_tutor
                       THEN /\ inflight' = [inflight EXCEPT ![c].pc = "tutor",
                                              ![c].student_id = student.id]
                            /\ UNCHANGED session
                       ELSE /\ inflight' = end(Redirect("/"))
                            /\ session' = [session EXCEPT ![c] = RegisteredSession(f)]

\* Lines 210-222: add and commit the Tutor, log the student in.
RegisterCommitTutor(c) ==
    \E failed \in BOOLEAN :
        LET f == RegisterFields(inflight[c].form)
            end(resp) == [inflight EXCEPT ![c].pc = "done", ![c].response = resp]
        IN  /\ inflight[c].pc = "tutor"
            /\ UNCHANGED <<students, ideas, request, response,
                           san_in, san_lim, san_out, san_again, san_pass>>
            /\ IF failed
               THEN /\ inflight' = end(Unhandled("OperationalError"))
                    /\ UNCHANGED <<tutors, session>>
               ELSE /\ tutors' = Append(tutors, NewTutor(f, inflight[c].student_id))
                    /\ session' = [session EXCEPT ![c] = RegisteredSession(f)]
                    /\ inflight' = end(Redirect("/"))

\* The response goes out; the browser may send its next request.
RegisterReturn(c) ==
    /\ inflight[c].pc = "done"
    /\ request' = Req("/register", "POST", c, inflight[c].form)
    /\ response' = inflight[c].response
    /\ inflight' = [inflight EXCEPT ![c] = Idle]
    /\ UNCHANGED <<students, tutors, ideas, session,
                   san_in, san_lim, san_out, san_again, san_pass>>

(***************************************************************************)
(* The sanitizer on its own                                                *)
(***************************************************************************)

\* The longest text, in symbols, the sanitizer is tried on.
MaxTextLen == 3

SanAlphabet == {"a", " ", "<", ">", "&", "'", LongWord, WordRun}

SanTexts == UNION {[1..n -> SanAlphabet] : n \in 0..MaxTextLen}

\* The (max_words, max_chars) pairs the handlers use.
SanLimits ==
    {<<1, 20>>, <<1, 50>>, <<10, 100>>, <<1, 100>>, <<20, 200>>, <<1, 4>>,
     <<word_limit, char_limit>>}

\* sanitize() applied to a submitted text.
SanitizeFirst ==
    /\ san_pass = 0
    /\ san_out' = sanitize(san_in, san_lim[1], san_lim[2])
    /\ san_pass' = 1
    /\ UNCHANGED <<students, tutors, ideas, session, request, response,
                   inflight, san_in, san_lim, san_again>>

\* sanitize() applied, with the same limits, to a text it returned.
SanitizeAgain ==
    /\ san_pass = 1
    /\ san_out # None
    /\ san_again' = sanitize(san_out, san_lim[1], san_lim[2])
    /\ san_pass' = 2
    /\ UNCHANGED <<students, tutors, ideas, session, request, response,
                   inflight, san_in, san_lim, san_out>>

(***************************************************************************)
(* Specifications                                                          *)
(***************************************************************************)

\* The application after start-up: empty tables, no session.
Init ==
    /\ students = <<>>
    /\ tutors = <<>>
    /\ ideas = <<>>
    /\ session = [c \in Clients |-> NoSession]
    /\ request = NoRequest
    /\ response = NoResponse
    /\ inflight = [c \in Clients |-> Idle]
    /\ san_in = <<>>
    /\ san_lim = <<0, 0>>
    /\ san_out = None
    /\ san_again = None
    /\ san_pass = 0

\* Accounts and sessions, one request at a time.
Next ==
    \/ RegisterGet
    \/ RegisterPost
    \/ LoginGet
    \/ LoginPost
    \/ Logout
    \/ Profile

Spec == Init /\ [][Next]_vars

\* The store once students 1 and 2 have registered and logged out: what
\* feedback() runs against.
InitFeedback ==
    /\ students = <<Student(1, <<"1">>, <<"p">>, <<"J">>, <<"e">>),
                    Student(2, <<"2">>, <<"p">>, <<"J">>, <<"e">>)>>
    /\ tutors = <<>>
    /\ ideas = <<>>
    /\ session = [c \in Clients |-> NoSession]
    /\ request = Req("/logout", "GET", Browser, <<>>)
    /\ response = Redirect("/")
    /\ inflight = [c \in Clients |-> Idle]
    /\ san_in = <<>>
    /\ san_lim = <<0, 0>>
    /\ san_out = None
    /\ san_again = None
    /\ san_pass = 0

NextFeedback == FeedbackGet \/ FeedbackPost

SpecFeedback == InitFeedback /\ [][NextFeedback]_vars

NextRace ==
    \E c \in Clients :
        \/ RegisterBegin(c)
        \/ RegisterCommitStudent(c)
        \/ RegisterCommitTutor(c)
        \/ RegisterReturn(c)

SpecRace == Init /\ [][NextRace]_vars

InitSanitizer ==
    /\ students = <<>>
    /\ tutors = <<>>
    /\ ideas = <<>>
    /\ session = [c \in Clients |-> NoSession]
    /\ request = NoRequest
    /\ response = NoResponse
    /\ inflight = [c \in Clients |-> Idle]
    /\ san_in \in SanTexts
    /\ san_lim \in SanLimits
    /\ san_out = None
    /\ san_again = None
    /\ san_pass = 0

NextSanitizer == SanitizeFirst \/ SanitizeAgain

SpecSanitizer == InitSanitizer /\ [][NextSanitizer]_vars

(***************************************************************************)
(* Properties                                                              *)
(***************************************************************************)

\* C1, as claimed: every registration POST whose sanitized student_number
\* is the number of a stored Student ends with alreadyexist = true and
\* leaves the Student and Tutor rows as they were.
C1_DuplicateAlwaysFlagged ==
    [][(request'.route = "/register" /\ request'.method = "POST") =>
         LET number == sanitize(Strip(request'.form.student_number), 1, 20)
             taken == \E i \in 1..Len(students) :
                          students[i].student_number = number
         IN  taken => /\ response'.alreadyexist
                      /\ students' = students
                      /\ tutors' = tutors]_vars

\* C1, amended: such a POST never changes the Student and Tutor rows, and
\* it ends with alreadyexist = true when the form carries the fields the
\* handler reads and password, name and email pass the required-field
\* check; the other forms are answered by that check (or by the unhandled
\* AttributeError of a tutor form without subjects or year) first.
C1_DuplicateFlaggedAfterValidation ==
    [][(request'.route = "/register" /\ request'.method = "POST") =>
         LET form == request'.form
             number == sanitize(Strip(form.student_number), 1, 20)
             taken == \E i \in 1..Len(students) :
                          students[i].student_number = number
             passes == /\ ~(form.is_tutor /\ None \in {form.subjects, form.year})
                       /\ Truthy(sanitize(Strip(form.password), 1, 50))
                       /\ Truthy(sanitize(Strip(form.student_name) \o <<" ">>
                                     \o Strip(form.student_lastname), 10, 100))
                       /\ Truthy(sanitize(Strip(form.email), 1, 100))
         IN  taken => /\ students' = students
                      /\ tutors' = tutors
                      /\ passes => response' = RegisterPage(TRUE, "")
                      /\ ~passes => ~response'.alreadyexist]_vars

\* C1, witness: a registration for a stored number was answered with the
\* alreadyexist flag.
C1_Witness ==
    /\ request.route = "/register" /\ request.method = "POST"
    /\ response = RegisterPage(TRUE, "")
    /\ \E i \in 1..Len(students) :
          students[i].student_number
              = sanitize(Strip(request.form.student_number), 1, 20)

\* C2, as claimed: with two registrations in flight no student number is
\* stored twice, and every request that passed validation and met no
\* storage failure ends either with the row created (the redirect) or with
\* the alreadyexist view, never with an unhandled error.
C2_RaceEndsInDuplicateView ==
    /\ \A i, j \in 1..Len(students) :
          i # j => students[i].student_number # students[j].student_number
    /\ \A c \in Clients :
          (/\ inflight[c].pc = "done"
           /\ ~MissingRequired(RegisterFields(inflight[c].form))
           /\ inflight[c].response.page # "OperationalError")
          => inflight[c].response \in {Redirect("/"), RegisterPage(TRUE, "")}

\* C3, as claimed: a registration that ends in an error leaves no row
\* behind, and a tutor registration adds a Student row exactly when it adds
\* a Tutor row.
C3_StudentAndTutorTogether ==
    [][(request'.route = "/register" /\ request'.method = "POST") =>
         /\ response'.status = 500 => students' = students /\ tutors' = tutors
         /\ request'.form.is_tutor =>
               (Len(students') > Len(students) <=> Len(tutors') > Len(tutors))]_vars

\* C4: a login POST whose student_number and password are those of a
\* stored Student puts that student's number and name in the session and
\* redirects to home; any other login POST returns the login view with
\* error = true and leaves the session as it was.
C4_LoginSetsOrKeepsSession ==
    [][(request'.route = "/login" /\ request'.method = "POST") =>
         LET form == request'.form
             c == request'.client
             match == {i \in 1..Len(students) :
                          /\ students[i].student_number = form.student_number
                          /\ students[i].password = form.password}
         IN  IF match # {}
             THEN /\ response' = Redirect("/")
                  /\ \E i \in match :
                        session' = [session EXCEPT ![c] =
                            Session(students[i].student_number, students[i].name)]
             ELSE /\ response' = LoginPage(TRUE)
                  /\ session' = session]_vars

\* C4, witness: a failed login while a student is logged in.
C4_Witness ==
    /\ request.route = "/login" /\ request.method = "POST"
    /\ response = LoginPage(TRUE)
    /\ session[request.client].student_number # None
    /\ \E i \in 1..Len(students) :
          /\ students[i].student_number = request.form.student_number
          /\ students[i].password # request.form.password

\* C5: a feedback POST whose content has, once tags are stripped and the
\* rest escaped, more than 150 words or more than 1000 characters is
\* answered with a validation notice and adds no Idea; content that is
\* within both limits once cleaned is not answered with a length notice,
\* whatever the raw length.
C5_OversizeFeedbackRejected ==
    [][(request'.route = "/feedback" /\ request'.method = "POST") =>
         LET clean == Escape(StripTags(request'.form.feedback))
             over == WordCount(clean) > 150 \/ CharLen(clean) > 1000
             notices == {Flash("ideas.html", MsgTooManyWords),
                         Flash("ideas.html", MsgTooManyChars)}
         IN  /\ over => /\ ideas' = ideas
                        /\ response' \in notices
                              \cup {Flash("ideas.html", MsgProvideBoth)}
             /\ ~over => response' \notin notices]_vars

\* C5, witness: content within the limits as submitted and over the
\* character limit once escaped was rejected for its length.
C5_Witness ==
    /\ request.route = "/feedback" /\ request.method = "POST"
    /\ CharLen(request.form.feedback) <= 1000
    /\ WordCount(request.form.feedback) <= 150
    /\ CharLen(Escape(StripTags(request.form.feedback))) > 1000
    /\ response = Flash("ideas.html", MsgTooManyChars)

\* C6, as claimed: the read of the feedback list that follows a POST that
\* saved an Idea has that Idea first, whatever the timestamps.
C6_NewIdeaAlwaysFirst ==
    [][(/\ request.route = "/feedback" /\ request.method = "POST"
        /\ response = FeedbackSaved
        /\ request'.route = "/feedback" /\ request'.method = "GET") =>
         response'.feedbacks[1] = ideas[Len(ideas)].id]_vars

\* C6, amended: that read has the new Idea first when its timestamp is
\* later than the timestamp of every Idea saved before it; an equal or
\* earlier clock reading may put an older Idea first.
C6_NewIdeaFirstWhenLatest ==
    [][(/\ request.route = "/feedback" /\ request.method = "POST"
        /\ response = FeedbackSaved
        /\ request'.route = "/feedback" /\ request'.method = "GET"
        /\ \A i \in 1..(Len(ideas) - 1) :
              ideas[i].timestamp < ideas[Len(ideas)].timestamp) =>
         response'.feedbacks[1] = ideas[Len(ideas)].id]_vars

\* C6, witness: a list read with a later Idea ahead of an earlier one.
C6_Witness ==
    /\ request.route = "/feedback" /\ request.method = "GET"
    /\ Len(ideas) = 2
    /\ ideas[1].timestamp < ideas[2].timestamp
    /\ response.feedbacks = <<2, 1>>

\* C7, as claimed: the sanitizer applied to a text it returned, with the
\* same limits, returns that text.
C7_SanitizeIdempotent ==
    san_pass = 2 => san_again = san_out

\* C7, amended: the sanitizer applied to a text it returned, with the same
\* limits, returns that text exactly when the text holds no "&", that is
\* when nothing was escaped; an "&" is escaped again, so the text grows or
\* is rejected.
C7_SanitizeIdempotentWithoutEntities ==
    san_pass = 2 =>
        (san_again = san_out <=> \A i \in 1..Len(san_out) : san_out[i] # "&")

\* C7, witness: a text with a tag was cleaned and the second pass returned
\* the cleaned text.
C7_Witness ==
    /\ san_pass = 2
    /\ \E i \in 1..Len(san_in) : san_in[i] = "<"
    /\ san_out # san_in
    /\ san_out # <<>>
    /\ san_again = san_out

\* C8, as claimed: a feedback POST whose student_number is that of no
\* Student is answered with the invalid-student notice and adds no Idea,
\* and an Idea that is added carries the id of the Student with the
\* submitted number.
C8_UnknownStudentAlwaysNoticed ==
    [][(request'.route = "/feedback" /\ request'.method = "POST") =>
         LET form == request'.form
             owners == {i \in 1..Len(students) :
                           students[i].student_number = form.student_number}
         IN  /\ owners = {} =>
                   /\ ideas' = ideas
                   /\ response' = Flash("ideas.html", MsgInvalidStudent)
             /\ ideas' # ideas =>
                   \E i \in owners :
                       ideas'[Len(ideas')].student_id = students[i].id]_vars

\* C8, amended: such a POST adds no Idea, and it is answered with the
\* invalid-student notice when both fields are present and the cleaned
\* content is within the limits (the presence and length checks come
\* first); an Idea that is added carries the id of the Student with the
\* submitted number.
C8_UnknownStudentNoticedAfterChecks ==
    [][(request'.route = "/feedback" /\ request'.method = "POST") =>
         LET form == request'.form
             owners == {i \in 1..Len(students) :
                           students[i].student_number = form.student_number}
             clean == Escape(StripTags(form.feedback))
             checked == /\ form.student_number # <<>> /\ form.feedback # <<>>
                        /\ WordCount(clean) <= 150 /\ CharLen(clean) <= 1000
         IN  /\ owners = {} =>
                   /\ ideas' = ideas
                   /\ checked => response' = Flash("ideas.html", MsgInvalidStudent)
                   /\ ~checked => response' # Flash("ideas.html", MsgInvalidStudent)
             /\ ideas' # ideas =>
                   /\ ideas' = Append(ideas, ideas'[Len(ideas')])
                   /\ \E i \in owners :
                         ideas'[Len(ideas')].student_id = students[i].id]_vars

\* C8, witness: a POST with an unknown number was answered with the
\* invalid-student notice.
C8_Witness ==
    /\ request.route = "/feedback" /\ request.method = "POST"
    /\ response = Flash("ideas.html", MsgInvalidStudent)
    /\ \A i \in 1..Len(students) :
          students[i].student_number # request.form.student_number
    /\ Len(ideas) > 0

\* C9, as claimed: every Tutor row has non-empty subjects and a year that
\* parses as a number.
C9_TutorRowsWellFormed ==
    \A i \in 1..Len(tutors) :
        /\ Truthy(tutors[i].subjects)
        /\ Truthy(tutors[i].year)
        /\ \A k \in 1..Len(tutors[i].year) :
              tutors[i].year[k] \in {"0", "1", "2", "3", "4", "5", "6", "7", "8", "9"}

\* C10, as claimed: a login POST that follows a successful registration
\* with the student_number and password that were submitted to it finds
\* the student and logs them in.
C10_RegisterThenLogin ==
    [][(/\ request.route = "/register" /\ request.method = "POST"
        /\ response = Redirect("/")
        /\ request'.route = "/login" /\ request'.method = "POST"
        /\ request'.form.student_number = request.form.student_number
        /\ request'.form.password = request.form.password) =>
         /\ response' = Redirect("/")
         /\ session'[request'.client].student_number # None]_vars

====
